---- MODULE Spec2Model ----
(***************************************************************************)
(* State-machine model of the photo browsing page, src/pages/index.tsx:    *)
(* the IndexPage component (URL query, debounced search box, pagination,  *)
(* modal, Photos query result) and getServerSideProps.                     *)
(*                                                                         *)
(* Strings are sequences of one-character strings, so that building a URL  *)
(* from a template and parsing it back are computed, not assumed.          *)
(* Numbers are records [nan, v] so that parseInt's NaN is a value.         *)
(***************************************************************************)
EXTENDS Integers, Sequences, FiniteSets, TLC

VARIABLES query, search, timers, selectedPhoto, result

vars == <<query, search, timers, selectedPhoto, result>>

(***************************************************************************)
(* Bounds of the model.                                                    *)
(***************************************************************************)
\* largest meta.totalCount the backend answers with
MaxTotal == 3
\* largest number of rows (photos) in one answer
MaxRows == 1
\* pagination clicks are followed while |page| stays within this bound
PageBound == 3
\* number of clock steps the debounce delay is divided into
TickSteps == 2

(***************************************************************************)
(* Numbers (JavaScript number, as far as the page uses it).                *)
(***************************************************************************)
NaN == [nan |-> TRUE, v |-> 0]
Num(n) == [nan |-> FALSE, v |-> n]
\* a === b on numbers: NaN equals nothing
StrictEq(a, b) == ~a.nan /\ ~b.nan /\ a.v = b.v
\* a + k
Plus(a, k) == IF a.nan THEN NaN ELSE Num(a.v + k)
\* Math.max / Math.min: NaN if either argument is NaN
MathMax(a, b) == IF a.nan \/ b.nan THEN NaN ELSE IF a.v >= b.v THEN a ELSE b
MathMin(a, b) == IF a.nan \/ b.nan THEN NaN ELSE IF a.v <= b.v THEN a ELSE b
\* Math.ceil(a / b) for a >= 0, b > 0
CeilDiv(a, b) == (a + b - 1) \div b

(***************************************************************************)
(* Strings.                                                                *)
(***************************************************************************)
Digits == <<"0", "1", "2", "3", "4", "5", "6", "7", "8", "9">>
IsDigit(c) == \E i \in 1..10 : Digits[i] = c
DigitVal(c) == (CHOOSE i \in 1..10 : Digits[i] = c) - 1

RECURSIVE NatToStr(_)
NatToStr(n) ==
  IF n < 10 THEN <<Digits[n + 1]>>
  ELSE NatToStr(n \div 10) \o <<Digits[(n % 10) + 1]>>

\* `${page}`: String(number)
NumToStr(a) ==
  IF a.nan THEN <<"N", "a", "N">>
  ELSE IF a.v < 0 THEN <<"-">> \o NatToStr(-a.v)
  ELSE NatToStr(a.v)

RECURSIVE SkipSpaces(_)
SkipSpaces(s) ==
  IF s # <<>> /\ Head(s) = " " THEN SkipSpaces(Tail(s)) ELSE s

\* value of the longest prefix of s made of digits, continuing from acc
RECURSIVE DigitsValue(_, _)
DigitsValue(s, acc) ==
  IF s = <<>> \/ ~IsDigit(Head(s)) THEN acc
  ELSE DigitsValue(Tail(s), acc * 10 + DigitVal(Head(s)))

\* parseInt(s, 10)
ParseInt(s) ==
  LET t == SkipSpaces(s)
      neg == t # <<>> /\ Head(t) = "-"
      u == IF t # <<>> /\ (Head(t) = "-" \/ Head(t) = "+") THEN Tail(t) ELSE t
  IN IF u = <<>> \/ ~IsDigit(Head(u)) THEN NaN
     ELSE Num((IF neg THEN -1 ELSE 1) * DigitsValue(u, 0))

\* index of the first c in s, or 0
RECURSIVE IndexOf(_, _, _)
IndexOf(s, c, i) ==
  IF i > Len(s) THEN 0 ELSE IF s[i] = c THEN i ELSE IndexOf(s, c, i + 1)

\* s.split(c)
RECURSIVE Split(_, _)
Split(s, c) ==
  LET i == IndexOf(s, c, 1)
  IN IF i = 0 THEN <<s>>
     ELSE <<SubSeq(s, 1, i - 1)>> \o Split(SubSeq(s, i + 1, Len(s)), c)

(***************************************************************************)
(* The router: a pushed URL string becomes router.query.                   *)
(***************************************************************************)
\* application/x-www-form-urlencoded decoding of one name or value:
\* "+" is a space (the model's alphabet has no "%")
Decode(s) == [i \in 1..Len(s) |-> IF s[i] = "+" THEN " " ELSE s[i]]

\* the name/value pairs of the search part of url, in order
Pairs(url) ==
  LET h == IndexOf(url, "#", 1)
      noHash == IF h = 0 THEN url ELSE SubSeq(url, 1, h - 1)
      qm == IndexOf(noHash, "?", 1)
      srch == IF qm = 0 THEN <<>> ELSE SubSeq(noHash, qm + 1, Len(noHash))
      pieces == SelectSeq(Split(srch, "&"), LAMBDA p : p # <<>>)
      pair(p) == LET e == IndexOf(p, "=", 1)
                 IN IF e = 0 THEN [name |-> Decode(p), value |-> <<>>]
                    ELSE [name |-> Decode(SubSeq(p, 1, e - 1)),
                          value |-> Decode(SubSeq(p, e + 1, Len(p)))]
  IN [i \in 1..Len(pieces) |-> pair(pieces[i])]

\* every value given for name, in order: none (absent), one (a string) or
\* several (an array)
ValuesOf(prs, name) ==
  LET hits == SelectSeq(prs, LAMBDA p : p.name = name)
  IN [i \in 1..Len(hits) |-> hits[i].value]

\* router.query after navigating to url
ParseUrl(url) ==
  [q |-> ValuesOf(Pairs(url), <<"q">>),
   page |-> ValuesOf(Pairs(url), <<"p", "a", "g", "e">>)]


(***************************************************************************)
(* Inputs: what the user types, and the URLs a link, the address bar or    *)
(* the history can hold.                                                   *)
(***************************************************************************)
\* values of the search box (event.target.value)
Inputs ==
  {<<>>, <<"a">>, <<"b">>, <<"a", "&", "b">>, <<"a", "#", "b">>,
   <<"a", "+", "b">>, <<"a", "=", "b">>}

\* router.query.q of a URL not built by the page: absent, empty, one
\* (decoded) value, or a repeated parameter
LinkQ ==
  {<<>>, << <<>> >>, << <<"a">> >>, << <<"a", "&", "b">> >>,
   << <<"a">>, <<"b">> >>}

\* router.query.page of such a URL: absent, empty, numbers in and out of
\* range, a non-numeric string, a repeated parameter
LinkPage ==
  {<<>>, << <<>> >>, << <<"0">> >>, << <<"1">> >>, << <<"2">> >>,
   << <<"3">> >>, << <<"-", "1">> >>, << <<"x">> >>, << <<"1">>, <<"2">> >>}

(***************************************************************************)
(* Program constants.                                                      *)
(***************************************************************************)
\* the page size, imported from ../lib/configs
LIST_LIMIT == 2
\* the debounce delay of setTimeout, in ms
Delay == 500

(***************************************************************************)
(* What a render of IndexPage computes from router.query and its state.    *)
(***************************************************************************)
IsString(vals) == Len(vals) = 1

\* const q
QOf(qry) == IF IsString(qry.q) /\ qry.q[1] # <<>> THEN qry.q[1] ELSE <<>>
Q == QOf(query)

\* const page
PageOf(qry) ==
  IF IsString(qry.page) /\ qry.page[1] # <<>> THEN ParseInt(qry.page[1])
  ELSE Num(1)
Page == PageOf(query)

\* the variables given to useQuery
ClientVars(qry) ==
  [q |-> IF IsString(qry.q) THEN qry.q[1] ELSE <<>>,
   page |-> IF IsString(qry.page) THEN ParseInt(qry.page[1]) ELSE Num(1),
   limit |-> LIST_LIMIT]

\* the variables getServerSideProps prefetches with
ServerVars(qry) ==
  [q |-> IF IsString(qry.q) /\ qry.q[1] # <<>> THEN qry.q[1] ELSE <<>>,
   page |-> IF IsString(qry.page) /\ qry.page[1] # <<>>
            THEN ParseInt(qry.page[1]) ELSE Num(1),
   limit |-> LIST_LIMIT]

\* the results of useQuery: data is undefined unless status is "data"
Loading == [status |-> "loading", totalCount |-> 0, rows |-> 0]
Failed == [status |-> "error", totalCount |-> 0, rows |-> 0]
Data(total, rows) == [status |-> "data", totalCount |-> total, rows |-> rows]
\* the answers of the backend: no more rows than photos found
Answers ==
  {d \in {Data(t, r) : t \in 0..MaxTotal, r \in 0..MaxRows} :
     d.rows <= d.totalCount}

\* const lastPage
LastPageOf(res) ==
  IF res.status = "data" /\ res.totalCount # 0
  THEN CeilDiv(res.totalCount, LIST_LIMIT) ELSE 0
lastPage == LastPageOf(result)

\* lodash range(start, end): step 1 when start < end, else -1
RangeLen(a, b) == IF a < b THEN b - a ELSE a - b
RangeOf(a, b) ==
  [i \in 1..RangeLen(a, b) |-> IF a < b THEN a + (i - 1) ELSE a - (i - 1)]
\* toFinite of range's arguments
ToFinite(x) == IF x.nan THEN 0 ELSE x.v
Range(start, end) == RangeOf(ToFinite(start), ToFinite(end))

\* the pages of the PaginationItems, in order
PageItemsOf(pg, lp) ==
  Range(MathMax(Num(1), Plus(pg, -2)), MathMin(Num(lp + 1), Plus(pg, 3)))
PageItems == PageItemsOf(Page, lastPage)

\* the items marked active
ActiveItems == {i \in 1..Len(PageItems) : StrictEq(Num(PageItems[i]), Page)}

\* the render with the early return on error left out
RenderedWithoutErrorReturn(res, sel) ==
  {"SearchBox", "Table"}
  \cup (IF res.status = "loading" THEN {"Spinner"} ELSE {})
  \cup (IF res.status = "data" /\ res.totalCount # 0
        THEN {"Pagination"} ELSE {})
  \cup (IF sel # 0 THEN {"Modal"} ELSE {})

\* what the component returns
RenderedOf(res, sel) ==
  IF res.status = "error" THEN {"Error"}
  ELSE {"SearchBox", "Table"}
       \cup (IF res.status = "loading" THEN {"Spinner"} ELSE {})
       \cup (IF res.status = "data" /\ res.totalCount # 0
             THEN {"Pagination"} ELSE {})
       \cup (IF sel # 0 THEN {"Modal"} ELSE {})
Rendered == RenderedOf(result, selectedPhoto)

\* the rows of the table
RowsShown == IF "Table" \in Rendered /\ result.status = "data"
             THEN 1..result.rows ELSE {}

FirstPrevDisabled == StrictEq(Page, Num(1))
NextLastDisabled == StrictEq(Page, Num(lastPage))

(***************************************************************************)
(* Navigation, the debounce effect and useQuery.                           *)
(***************************************************************************)
\* `/?q=${q}&page=${page}`
UrlOf(q, pg) ==
  <<"/", "?", "q", "=">> \o q \o <<"&", "p", "a", "g", "e", "=">> \o NumToStr(pg)

\* the effect of [search, q]: when either changed, its cleanup clears the
\* timer of the previous run and a new timer is set; pending is the set of
\* timers left by the step so far
EffectOf(pending, newSearch, newQ) ==
  IF newSearch = search /\ newQ = Q THEN pending
  ELSE {t \in pending : ~(t.search = search /\ t.q = Q)}
       \cup {[search |-> newSearch, q |-> newQ, remaining |-> Delay]}

\* useQuery on a render: new variables start a fetch
UseQueryOf(newQuery) ==
  IF ClientVars(newQuery) = ClientVars(query) THEN result ELSE Loading

\* a render with a new search value and a new router.query
Rerender(pending, newSearch, newQuery) ==
  /\ search' = newSearch
  /\ query' = newQuery
  /\ timers' = EffectOf(pending, newSearch, QOf(newQuery))
  /\ result' = UseQueryOf(newQuery)

\* setPage(page): router.push with the q of this render
SetPage(pg) == Rerender(timers, search, ParseUrl(UrlOf(Q, pg)))

InBound(pg) == pg.nan \/ (pg.v >= -PageBound /\ pg.v <= PageBound)

(***************************************************************************)
(* Initial state: the server prefetched the Photos query for the URL with  *)
(* ServerVars and the page was hydrated with that cache; the first client  *)
(* render asks for ClientVars and mounts the debounce effect.              *)
(***************************************************************************)
Init ==
  /\ query \in {[q |-> a, page |-> b] : a \in LinkQ, b \in LinkPage}
  /\ search = Q
  /\ timers = {[search |-> Q, q |-> Q, remaining |-> Delay]}
  /\ selectedPhoto = 0
  /\ result \in {IF ClientVars(query) = ServerVars(query) THEN d ELSE Loading :
                   d \in Answers}

(***************************************************************************)
(* The handlers.                                                           *)
(***************************************************************************)
\* onChange of the search box: setSearch(value), setPage(1)
HandleSearchChange(v) ==
  /\ "SearchBox" \in Rendered
  /\ v # search
  /\ Rerender(timers, v, ParseUrl(UrlOf(Q, Num(1))))
  /\ UNCHANGED selectedPhoto

\* onSelect of a PaginationItem: setPage(p)
HandleItemSelect(p) ==
  /\ "Pagination" \in Rendered
  /\ \E i \in 1..Len(PageItems) : PageItems[i] = p
  /\ InBound(Num(p))
  /\ SetPage(Num(p))
  /\ UNCHANGED selectedPhoto

HandleFirstClick ==
  /\ "Pagination" \in Rendered
  /\ ~FirstPrevDisabled
  /\ SetPage(Num(1))
  /\ UNCHANGED selectedPhoto

HandleLastClick ==
  /\ "Pagination" \in Rendered
  /\ ~NextLastDisabled
  /\ SetPage(Num(lastPage))
  /\ UNCHANGED selectedPhoto

HandlePrevClick ==
  /\ "Pagination" \in Rendered
  /\ ~FirstPrevDisabled
  /\ InBound(Plus(Page, -1))
  /\ SetPage(Plus(Page, -1))
  /\ UNCHANGED selectedPhoto

HandleNextClick ==
  /\ "Pagination" \in Rendered
  /\ ~NextLastDisabled
  /\ InBound(Plus(Page, 1))
  /\ SetPage(Plus(Page, 1))
  /\ UNCHANGED selectedPhoto

\* a row selection that also goes back to the first page
SelectPhotoResetsPage(photo) ==
  /\ photo \in RowsShown
  /\ selectedPhoto' = photo
  /\ SetPage(Num(1))

\* onSelect of an ImageRow
HandleSelectPhoto(photo) ==
  /\ photo \in RowsShown
  /\ selectedPhoto' = photo
  /\ UNCHANGED <<query, search, timers, result>>

\* onHide of the modal
HandleModalHide ==
  /\ "Modal" \in Rendered
  /\ selectedPhoto' = 0
  /\ UNCHANGED <<query, search, timers, result>>

(***************************************************************************)
(* The debounce timer.                                                     *)
(***************************************************************************)
TickMs == (Delay + TickSteps - 1) \div TickSteps

\* time passes: an expired timer runs before more time passes
Tick ==
  /\ timers # {}
  /\ \A t \in timers : t.remaining > 0
  /\ timers' = {[t EXCEPT !.remaining = IF @ > TickMs THEN @ - TickMs ELSE 0] :
                  t \in timers}
  /\ UNCHANGED <<query, search, selectedPhoto, result>>

\* the callback of setTimeout, with the search and q of the render that set
\* it: search !== q, so it pushes
TimerPush(t) ==
  /\ t \in timers
  /\ t.remaining = 0
  /\ t.search # t.q
  /\ Rerender(timers \ {t}, search, ParseUrl(UrlOf(t.search, Num(1))))
  /\ UNCHANGED selectedPhoto

\* the callback with search === q: nothing to do
TimerIdle(t) ==
  /\ t \in timers
  /\ t.remaining = 0
  /\ t.search = t.q
  /\ timers' = timers \ {t}
  /\ UNCHANGED <<query, search, selectedPhoto, result>>

(***************************************************************************)
(* The environment: the backend's answer, and URL changes made by the      *)
(* browser (back, forward, a link, the address bar).                       *)
(***************************************************************************)
FetchSuccess(d) ==
  /\ result.status = "loading"
  /\ result' = d
  /\ UNCHANGED <<query, search, timers, selectedPhoto>>

FetchError ==
  /\ result.status = "loading"
  /\ result' = Failed
  /\ UNCHANGED <<query, search, timers, selectedPhoto>>

UrlChange(a, b) ==
  /\ [q |-> a, page |-> b] # query
  /\ Rerender(timers, search, [q |-> a, page |-> b])
  /\ UNCHANGED selectedPhoto

Next ==
  \/ \E v \in Inputs : HandleSearchChange(v)
  \/ \E p \in -PageBound..PageBound : HandleItemSelect(p)
  \/ HandleFirstClick
  \/ HandleLastClick
  \/ HandlePrevClick
  \/ HandleNextClick
  \/ \E photo \in 1..MaxRows : HandleSelectPhoto(photo)
  \/ HandleModalHide
  \/ Tick
  \/ \E t \in timers : TimerPush(t)
  \/ \E t \in timers : TimerIdle(t)
  \/ \E d \in Answers : FetchSuccess(d)
  \/ FetchError
  \/ \E a \in LinkQ, b \in LinkPage : UrlChange(a, b)

Spec == Init /\ [][Next]_vars

(***************************************************************************)
(* Steps, by who takes them.                                               *)
(***************************************************************************)
PaginationClick ==
  HandleFirstClick \/ HandleLastClick \/ HandlePrevClick \/ HandleNextClick

\* every call of setPage
SetPageStep ==
  \/ PaginationClick
  \/ \E p \in -PageBound..PageBound : HandleItemSelect(p)
  \/ \E v \in Inputs : HandleSearchChange(v)

\* every action the rendered page offers the user
UserAction ==
  \/ SetPageStep
  \/ \E photo \in 1..MaxRows : HandleSelectPhoto(photo)
  \/ HandleModalHide

ModalVisible == "Modal" \in Rendered

(***************************************************************************)
(* The claims.                                                             *)
(***************************************************************************)

\* C1: when the debounce timer pushes, URL q becomes the search box's value
\* exactly and page becomes 1.
C1_DebouncedSearchSetsUrl ==
  [][(\E t \in timers : TimerPush(t))
       => (Q' = search' /\ StrictEq(Page', Num(1)))]_vars

\* C2: when URL q is changed from outside the search box, the search box
\* shows the new q.
C2_UrlDrivesSearchBox ==
  [][(\E a \in LinkQ, b \in LinkPage : UrlChange(a, b)) => search' = Q']_vars

\* C3: First/Prev are disabled on the first page and Next/Last on the last
\* page, and no click on an enabled First, Prev, Next or Last leads to a
\* page below 1 or above lastPage.
C3_PaginationStaysInRange ==
  /\ []("Pagination" \in Rendered =>
          /\ (Page = Num(1) => FirstPrevDisabled)
          /\ (Page = Num(lastPage) => NextLastDisabled))
  /\ [][PaginationClick =>
          (~Page'.nan /\ Page'.v >= 1 /\ Page'.v <= lastPage)]_vars

\* C4: for every URL query the page sent with the Photos query and the page
\* of the pagination control are integers >= 1, and 1 when page is absent.
C4_PageIsOneBased ==
  LET sent == ClientVars(query).page
  IN /\ ~sent.nan /\ sent.v >= 1
     /\ ~Page.nan /\ Page.v >= 1
     /\ (query.page = <<>> => sent = Num(1) /\ Page = Num(1))

\* C5: for every URL query the variables prefetched by getServerSideProps
\* equal the variables the component gives to useQuery.
C5_ServerAndClientVariablesAgree ==
  ClientVars(query) = ServerVars(query)

\* C6: while the query result carries an error the page renders the Error
\* message alone, offers no user action, and no step of the component
\* starts a fetch for the variables that failed.
C6_ErrorIsStatic ==
  /\ [](result.status = "error" => Rendered = {"Error"})
  /\ [][result.status = "error" =>
          /\ ~UserAction
          /\ (result'.status = "loading" =>
                ClientVars(query') # ClientVars(query))]_vars

\* C6 witness: the query failed while a debounce timer that will push is
\* pending and a photo is selected.
C6_Witness ==
  /\ result.status = "error"
  /\ selectedPhoto # 0
  /\ \E t \in timers : t.search # t.q

\* C7: at most one debounce timer is pending; a change of the search box
\* leaves exactly the timer it started, with the full delay to run, and
\* the navigation it makes leaves URL q as it was or at the value typed, so
\* that a burst changes q at most once, to the last value typed.
C7_OneTimerOneNavigation ==
  /\ [](Cardinality(timers) <= 1)
  /\ [][(\E v \in Inputs : HandleSearchChange(v)) =>
          /\ timers' = {[search |-> search', q |-> Q', remaining |-> Delay]}
          /\ (Q' = Q \/ Q' = search')]_vars

\* C8 as stated: the modal is visible exactly when a photo is selected.
C8_ModalVisibleIffSelected == ModalVisible <=> selectedPhoto # 0

\* C8 as amended: the modal is visible exactly when a photo is selected and
\* the query result carries no error; a step that changes the selected
\* photo selects a shown row's photo or hides the visible modal, and leaves
\* the search box, the URL, the timers and the query result as they were.
C8_ModalFrame ==
  /\ [](ModalVisible <=> (selectedPhoto # 0 /\ result.status # "error"))
  /\ [][selectedPhoto' # selectedPhoto =>
          /\ UNCHANGED <<query, search, timers, result>>
          /\ \/ selectedPhoto' \in RowsShown
             \/ selectedPhoto' = 0 /\ ModalVisible]_vars
  /\ [][(\E photo \in 1..MaxRows : HandleSelectPhoto(photo)) \/ HandleModalHide
          => UNCHANGED <<query, search, timers, result>>]_vars

\* C8 witness: a photo is selected and its modal is visible while a
\* debounce timer that will push is pending.
C8_Witness ==
  /\ selectedPhoto # 0
  /\ ModalVisible
  /\ \E t \in timers : t.search # t.q /\ t.remaining < Delay

\* C9: a navigation made by setPage leaves URL q as it was.
C9_SetPageKeepsQ == [][SetPageStep => Q' = Q]_vars

\* C10: when the pagination control is rendered the items are exactly
\* max(1, page - 2) .. min(lastPage, page + 2) in ascending order, and
\* exactly one item, the current page, is active.
C10_PaginationWindow ==
  "Pagination" \in Rendered =>
    /\ ~Page.nan
    /\ LET lo == IF Page.v - 2 > 1 THEN Page.v - 2 ELSE 1
           hi == IF Page.v + 2 < lastPage THEN Page.v + 2 ELSE lastPage
       IN /\ Len(PageItems) = (IF hi >= lo THEN hi - lo + 1 ELSE 0)
          /\ \A i \in 1..Len(PageItems) : PageItems[i] = lo + i - 1
    /\ Len(PageItems) <= 5
    /\ \A i \in 1..Len(PageItems) : PageItems[i] >= 1 /\ PageItems[i] <= lastPage
    /\ Cardinality(ActiveItems) = 1

====
